---- MODULE Spec2Model ----
(***************************************************************************)
(* Model of app.py, the customer-clustering dashboard script.              *)
(*                                                                         *)
(* One execution of the script is a straight line of steps (load, build,   *)
(* fit, label, dump, title, select, one branch of the if/elif chain,       *)
(* conclusion).  The hosting framework re-executes the script from the top *)
(* on every interaction; the input file, the model directory and the       *)
(* written artifact live on disk and outlive an execution.                 *)
(*                                                                         *)
(* The numerical library is modelled in integer arithmetic:                *)
(*   - the column transformer centres the three numeric columns            *)
(*     (n*x - sum(x), the scaling by the deviation is left out) and        *)
(*     one-hot encodes Gender over the categories seen at fit;             *)
(*   - the PCA keeps the first N_COMPONENTS components of that vector;     *)
(*   - k-means is Lloyd's iteration from a seeded initialisation, the      *)
(*     best of N_INIT initialisations by inertia, centres by floor mean.   *)
(***************************************************************************)
EXTENDS Integers, Sequences, FiniteSets, TLC

VARIABLES
    file,               \* dados/Mall_Customers_no_CustomerID.csv on disk
    dirExists,          \* whether the directory modelos/ exists
    artifact,           \* modelos/pipeline_preprocessing_pca_clustering.pkl
    runs,               \* executions of the script started so far
    crashes,            \* executions ended by an unhandled exception
    startupFits,        \* calls of pipeline.fit(df) (line 66) over all executions
    prevLabels,         \* the labels the previous execution assigned, if any
    pc,                 \* position of the current execution
    df,                 \* script global df
    pipeline,           \* script global pipeline
    df_clustered,       \* script global df_clustered
    opcao_visualizacao, \* script global opcao_visualizacao
    df_pca,             \* script global df_pca, set by the 3-D branches
    loads,              \* read_csv calls of this execution
    writes,             \* joblib.dump calls of this execution
    charts,             \* st.pyplot calls of this execution, in order
    errors,             \* st.error messages of this execution
    figures,            \* plt.figure calls made by visualizar_cluster
    written,            \* st.title/st.write/st.header texts of this execution
    exception,          \* the unhandled exception that ended this execution
    call                \* arguments of a direct call of visualizar_cluster

vars == <<file, dirExists, artifact, runs, crashes, startupFits, prevLabels, pc,
          df, pipeline, df_clustered, opcao_visualizacao, df_pca, loads, writes,
          charts, errors, figures, written, exception, call>>

(***************************************************************************)
(* Bounds of the model                                                     *)
(***************************************************************************)
MaxRows == 5
MaxRuns == 2
LloydMaxIter == 3

(***************************************************************************)
(* Program constants                                                       *)
(***************************************************************************)
RANDOM_STATE == 42
N_COMPONENTS == 3
N_CLUSTERS == 5
N_INIT == 10

NumericColumns == <<"Age", "Annual Income (k$)", "Spending Score (1-100)">>
RequiredColumns == {"Age", "Annual Income (k$)", "Spending Score (1-100)", "Gender"}

Options == <<"Pairplot", "Boxplot por Cluster", "Boxplot por Gênero",
             "Cluster em 3D (sem dispersão)", "Cluster em 3D (com dispersão)">>

Range(s) == {s[i] : i \in 1..Len(s)}

(***************************************************************************)
(* Input tables                                                            *)
(***************************************************************************)
Customer(age, income, score, gender) ==
    [c \in RequiredColumns |->
        CASE c = "Age" -> age
          [] c = "Annual Income (k$)" -> income
          [] c = "Spending Score (1-100)" -> score
          [] OTHER -> gender]

\* Sample customers, one per segment the conclusion of the script describes.
Customers ==
    << Customer(19, 15, 39, "Male"),
       Customer(23, 16, 77, "Female"),
       Customer(35, 78, 88, "Female"),
       Customer(47, 85, 12, "Male"),
       Customer(58, 40, 50, "Female") >>

RECURSIVE SeqsOf(_, _)
SeqsOf(S, n) ==
    IF n = 0 THEN {<<>>}
    ELSE {Append(s, x) : s \in SeqsOf(S, n - 1), x \in S}

Restrict(r, cols) == [c \in cols |-> r[c]]

\* A dataframe: its column names and its rows, each row a function on the columns.
DataFrame(cols, rows) == [columns |-> cols, rows |-> rows]

EmptyFrame == DataFrame({}, <<>>)

\* Files of n rows, the rows in the order of the sample.
RowsOf(n) ==
    { [i \in 1..n |-> Customers[idx[i]]] :
        idx \in { s \in SeqsOf(1..Len(Customers), n) :
                    \A i \in 1..(n - 1) : s[i] <= s[i + 1] } }

\* The tables the file may hold: MaxRows rows, which the fit accepts when there are
\* at least as many rows as clusters; a single row; a table lacking a column.
Tables ==
    { DataFrame(RequiredColumns, rows) : rows \in RowsOf(MaxRows) }
    \cup
    { DataFrame(RequiredColumns, rows) : rows \in RowsOf(1) }
    \cup
    { DataFrame(RequiredColumns \ {"Gender"},
                [i \in 1..MaxRows |-> Restrict(Customers[1],
                                               RequiredColumns \ {"Gender"})]) }

Files == {[exists |-> FALSE, table |-> EmptyFrame]}
         \cup {[exists |-> TRUE, table |-> t] : t \in Tables}

(***************************************************************************)
(* The library stages                                                      *)
(***************************************************************************)
RECURSIVE SumTo(_, _)
SumTo(s, n) == IF n = 0 THEN 0 ELSE s[n] + SumTo(s, n - 1)

SumSeq(s) == SumTo(s, Len(s))

\* The function f on 1..n as a sequence held by value.
Array(f) == <<>> \o f

Column(frame, c) == Array([i \in 1..Len(frame.rows) |-> frame.rows[i][c]])

\* ColumnTransformer(StandardScaler on the numeric columns, OneHotEncoder on Gender)
UnfittedPreprocessing == [fits |-> 0, n |-> 0, sums |-> <<0, 0, 0>>, categories |-> <<>>]

PreprocessingAccepts(frame) == RequiredColumns \subseteq frame.columns

SortedCategories(S) ==
    IF S = {} THEN <<>>
    ELSE IF S = {"Female"} THEN <<"Female">>
    ELSE IF S = {"Male"} THEN <<"Male">>
    ELSE <<"Female", "Male">>

PreprocessingFit(stage, frame) ==
    [fits |-> stage.fits + 1,
     n |-> Len(frame.rows),
     sums |-> Array([j \in 1..3 |-> SumSeq(Column(frame, NumericColumns[j]))]),
     categories |-> SortedCategories(Range(Column(frame, "Gender")))]

PreprocessingTransform(stage, frame) ==
    Array([i \in 1..Len(frame.rows) |->
        [j \in 1..3 |-> stage.n * frame.rows[i][NumericColumns[j]] - stage.sums[j]]
        \o [j \in 1..Len(stage.categories) |->
              IF frame.rows[i]["Gender"] = stage.categories[j] THEN 1 ELSE 0]])

\* PCA(n_components = 3)
UnfittedPca == [fits |-> 0, n_components |-> N_COMPONENTS, n_features |-> 0]

PcaFit(stage, X) ==
    [fits |-> stage.fits + 1, n_components |-> stage.n_components,
     n_features |-> IF X = <<>> THEN 0 ELSE Len(X[1])]

PcaTransform(stage, X) ==
    Array([i \in 1..Len(X) |-> SubSeq(X[i], 1, stage.n_components)])

\* KMeans(n_clusters = 5, random_state = RANDOM_STATE, n_init = 10)
UnfittedClustering ==
    [fits |-> 0, n_clusters |-> N_CLUSTERS, labels_ |-> <<>>, cluster_centers_ |-> <<>>]

Dist2(a, b) == SumSeq([d \in 1..Len(a) |-> (a[d] - b[d]) * (a[d] - b[d])])

\* The seeded initialisation: n_clusters distinct rows, the first one picked by the seed.
InitCenters(X, k, seed) == Array([j \in 1..k |-> X[((seed + j - 1) % Len(X)) + 1]])

\* argmin of the distances d, the lowest index on a tie
RECURSIVE ArgMin(_, _, _)
ArgMin(d, j, best) ==
    IF j > Len(d) THEN best
    ELSE ArgMin(d, j + 1, IF d[j] < d[best] THEN j ELSE best)

Nearest(x, centers) ==
    LET d == Array([j \in 1..Len(centers) |-> Dist2(x, centers[j])])
    IN  ArgMin(d, 2, 1)

AssignLabels(X, centers) ==
    Array([i \in 1..Len(X) |-> Nearest(X[i], centers) - 1])

\* The mean of the members of each cluster; a cluster without members keeps its centre.
UpdateCenters(X, labels, centers) ==
    Array([j \in 1..Len(centers) |->
        LET idx == {i \in 1..Len(X) : labels[i] = j - 1}
        IN  IF idx = {} THEN centers[j]
            ELSE Array([d \in 1..Len(centers[j]) |->
                    SumSeq([i \in 1..Len(X) |->
                               IF i \in idx THEN X[i][d] ELSE 0])
                        \div Cardinality(idx)])])

RECURSIVE Lloyd(_, _, _)
Lloyd(X, centers, iter) ==
    LET labels == AssignLabels(X, centers)
        moved == UpdateCenters(X, labels, centers)
    IN  IF moved = centers \/ iter = 0
        THEN [labels |-> labels, centers |-> centers,
              inertia |-> SumSeq([i \in 1..Len(X) |->
                                     Dist2(X[i], centers[labels[i] + 1])])]
        ELSE Lloyd(X, moved, iter - 1)

\* n_init runs from consecutive seeds; the run with the least inertia is kept, the
\* earliest on a tie.
RECURSIVE BestOf(_, _, _, _, _)
BestOf(X, k, seed, t, best) ==
    IF t = N_INIT THEN best
    ELSE LET r == Lloyd(X, InitCenters(X, k, seed + t), LloydMaxIter)
         IN  BestOf(X, k, seed, t + 1, IF r.inertia < best.inertia THEN r ELSE best)

KMeansAccepts(X, k) == Len(X) >= k

\* A variant that numbers the clusters from 1.
KMeansOffByOne(stage, X, seed) ==
    LET r == BestOf(X, stage.n_clusters, seed, 1,
                    Lloyd(X, InitCenters(X, stage.n_clusters, seed), LloydMaxIter))
    IN  [fits |-> stage.fits + 1, n_clusters |-> stage.n_clusters,
         labels_ |-> Array([i \in 1..Len(X) |-> r.labels[i] + 1]),
         cluster_centers_ |-> r.centers]

\* KMeans.fit: labels_ numbers the clusters from 0.
KMeansFit(stage, X, seed) ==
    LET r == BestOf(X, stage.n_clusters, seed, 1,
                    Lloyd(X, InitCenters(X, stage.n_clusters, seed), LloydMaxIter))
    IN  [fits |-> stage.fits + 1, n_clusters |-> stage.n_clusters,
         labels_ |-> r.labels, cluster_centers_ |-> r.centers]

(***************************************************************************)
(* The pipeline object (lines 50-64) and its use                           *)
(***************************************************************************)
NewPipeline ==
    [preprocessing |-> UnfittedPreprocessing,
     pca |-> UnfittedPca,
     clustering |-> UnfittedClustering]

\* random_state = RANDOM_STATE on the PCA and the KMeans stages; an estimator built
\* with random_state = None draws its seed from the entropy of the execution.
RandomStateNone(entropy) == entropy

RandomState(entropy) == RANDOM_STATE

\* What pipeline.fit(df) raises on: a table lacking a column the transformer selects,
\* or fewer rows than clusters.
PipelineAccepts(frame) ==
    /\ PreprocessingAccepts(frame)
    /\ KMeansAccepts(frame.rows, N_CLUSTERS)

\* pipeline[:-1].fit_transform(df): the slice shares the stage objects of the pipeline,
\* so both stages are fit again, in place; X is the array it returns.
SliceFitTransform(p, frame) ==
    LET prep == PreprocessingFit(p.preprocessing, frame)
        X1 == PreprocessingTransform(prep, frame)
        pca == PcaFit(p.pca, X1)
    IN  [pipeline |-> [p EXCEPT !.preprocessing = prep, !.pca = pca],
         X |-> PcaTransform(pca, X1)]

\* pipeline.fit(df)
PipelineFit(p, frame, entropy) ==
    LET head == SliceFitTransform(p, frame)
    IN  [head.pipeline EXCEPT
            !.clustering = KMeansFit(p.clustering, head.X, RandomState(entropy))]

\* df.copy() with the column "cluster" set to the labels
WithCluster(frame, labels) ==
    DataFrame(frame.columns \cup {"cluster"},
              Array([i \in 1..Len(frame.rows) |->
                  [c \in frame.columns \cup {"cluster"} |->
                      IF c = "cluster" THEN labels[i] ELSE frame.rows[i][c]]]))

PcaColumns == <<"pca0", "pca1", "pca2">>

\* pd.DataFrame(X, columns = [pca0, pca1, pca2])
PcaFrame(X) ==
    DataFrame(Range(PcaColumns),
              Array([i \in 1..Len(X) |->
                  [c \in Range(PcaColumns) |->
                      CASE c = "pca0" -> X[i][1]
                        [] c = "pca1" -> X[i][2]
                        [] OTHER -> X[i][3]]]))

(***************************************************************************)
(* visualizar_cluster (lines 74-91)                                        *)
(***************************************************************************)
NoneValue == "None"

Chart(kind, layers, centroids) ==
    [kind |-> kind, layers |-> layers, centroids |-> centroids]

\* One ax.scatter call of the loop: the rows it is given, as points of the plot.
ScatterLayer(dataframe, colunas, i, mostrar_pontos, coluna_clusters) ==
    LET pontos == IF mostrar_pontos
                  THEN SelectSeq(dataframe.rows, LAMBDA r : r[coluna_clusters] = i)
                  ELSE dataframe.rows
    IN  [color |-> i,
         points |-> Array([n \in 1..Len(pontos) |->
                              <<pontos[n][colunas[1]], pontos[n][colunas[2]],
                                pontos[n][colunas[3]]>>])]

\* A variant without the return of line 77: the figure of line 79 is created before
\* the lookup of the column fails.
VisualizarClusterNoReturn(dataframe, colunas, quantidade_cores, centroids, mostrar_pontos, coluna_clusters) ==
    IF coluna_clusters \notin dataframe.columns
    THEN [errors |-> <<coluna_clusters>>, figures |-> 1, charts |-> <<>>]
    ELSE [errors |-> <<>>,
          figures |-> 1,
          charts |-> <<Chart("scatter3d",
                             Array([i \in 1..quantidade_cores |->
                                 ScatterLayer(dataframe, colunas, i - 1,
                                              mostrar_pontos, coluna_clusters)]),
                             centroids)>>]

VisualizarCluster(dataframe, colunas, quantidade_cores, centroids, mostrar_pontos, coluna_clusters) ==
    IF coluna_clusters \notin dataframe.columns
    THEN [errors |-> <<coluna_clusters>>, figures |-> 0, charts |-> <<>>]
    ELSE [errors |-> <<>>,
          figures |-> 1,
          charts |-> <<Chart("scatter3d",
                             Array([i \in 1..quantidade_cores |->
                                 ScatterLayer(dataframe, colunas, i - 1,
                                              mostrar_pontos, coluna_clusters)]),
                             centroids)>>]

(***************************************************************************)
(* The if/elif chain (lines 104-143): the branch an option selects, 0 for none *)
(***************************************************************************)
\* A variant with the second boxplot branch a copy of the first.
BranchCopyPaste(opcao) ==
    IF opcao = "Pairplot" THEN 1
    ELSE IF opcao = "Boxplot por Cluster" THEN 2
    ELSE IF opcao = "Boxplot por Gênero" THEN 2
    ELSE IF opcao = "Cluster em 3D (sem dispersão)" THEN 4
    ELSE IF opcao = "Cluster em 3D (com dispersão)" THEN 5
    ELSE 0

\* A variant whose chain ends in an else that draws the pairplot.
BranchDefault(opcao) ==
    IF opcao = "Boxplot por Cluster" THEN 2
    ELSE IF opcao = "Boxplot por Gênero" THEN 3
    ELSE IF opcao = "Cluster em 3D (sem dispersão)" THEN 4
    ELSE IF opcao = "Cluster em 3D (com dispersão)" THEN 5
    ELSE 1

Branch(opcao) ==
    IF opcao = "Pairplot" THEN 1
    ELSE IF opcao = "Boxplot por Cluster" THEN 2
    ELSE IF opcao = "Boxplot por Gênero" THEN 3
    ELSE IF opcao = "Cluster em 3D (sem dispersão)" THEN 4
    ELSE IF opcao = "Cluster em 3D (com dispersão)" THEN 5
    ELSE 0

\* The first st.write of each branch (lines 105, 111, 120, 129, 144)
Headings == <<"### Pairplot dos Clusters", "### Boxplot por Cluster",
              "### Boxplot por Gênero", "### Cluster em 3D (sem dispersão)",
              "### Cluster em 3D (com dispersão)">>

Title == "Análise de Cluster de Clientes"
Conclusion == "Conclusão do Projeto de Clusterização de Clientes"

(***************************************************************************)
(* State                                                                   *)
(***************************************************************************)
NoArtifact == [exists |-> FALSE, content |-> NewPipeline]
NoLabels == [has |-> FALSE, labels |-> <<>>, opcao |-> ""]
NoCall == [dataframe |-> EmptyFrame, colunas |-> PcaColumns, quantidade_cores |-> 0,
           centroids |-> <<>>, mostrar_pontos |-> FALSE, coluna_clusters |-> NoneValue]

Init ==
    /\ file \in Files
    /\ dirExists \in BOOLEAN
    /\ artifact = NoArtifact
    /\ runs = 0
    /\ crashes = 0
    /\ startupFits = 0
    /\ prevLabels = NoLabels
    /\ pc = "start"
    /\ df = EmptyFrame
    /\ pipeline = NewPipeline
    /\ df_clustered = EmptyFrame
    /\ opcao_visualizacao = ""
    /\ df_pca = EmptyFrame
    /\ loads = 0
    /\ writes = 0
    /\ charts = <<>>
    /\ errors = <<>>
    /\ figures = 0
    /\ written = <<>>
    /\ exception = ""
    /\ call = NoCall

disk == <<file, dirExists>>
totals == <<runs, crashes, startupFits, prevLabels>>
globals == <<df, pipeline, df_clustered, opcao_visualizacao, df_pca>>
outputs == <<charts, errors, figures, written>>

\* An unhandled exception ends the execution at the step that raised it.
Raise(what) ==
    /\ pc' = "crashed"
    /\ exception' = what
    /\ crashes' = crashes + 1

(***************************************************************************)
(* The steps of one execution                                              *)
(***************************************************************************)
\* The framework starts an execution: a fresh namespace and an empty page, then
\* lines 16-44 (imports, the CSS st.markdown, the configuration).
Start ==
    /\ pc \in {"start", "done", "crashed"}
    /\ runs < MaxRuns
    /\ runs' = runs + 1
    /\ prevLabels' = IF df_clustered # EmptyFrame
                     THEN [has |-> TRUE, labels |-> Column(df_clustered, "cluster"),
                           opcao |-> opcao_visualizacao]
                     ELSE prevLabels
    /\ pc' = "load"
    /\ df' = EmptyFrame
    /\ pipeline' = NewPipeline
    /\ df_clustered' = EmptyFrame
    /\ opcao_visualizacao' = ""
    /\ df_pca' = EmptyFrame
    /\ loads' = 0
    /\ writes' = 0
    /\ charts' = <<>>
    /\ errors' = <<>>
    /\ figures' = 0
    /\ written' = <<"<style>">>
    /\ exception' = ""
    /\ UNCHANGED <<disk, artifact, crashes, startupFits, call>>

\* A variant that swallows the failure: try/except around read_csv, an empty table.
LoadSwallow ==
    /\ pc = "load"
    /\ loads' = loads + 1
    /\ df' = IF file.exists THEN file.table ELSE EmptyFrame
    /\ pc' = "build"
    /\ UNCHANGED <<disk, artifact, runs, crashes, startupFits, prevLabels, pipeline,
                   df_clustered, opcao_visualizacao, df_pca, writes, outputs, exception,
                   call>>

\* line 47: df = pd.read_csv(DADOS)
Load ==
    /\ pc = "load"
    /\ loads' = loads + 1
    /\ IF file.exists
       THEN /\ df' = file.table
            /\ pc' = "build"
            /\ UNCHANGED <<exception, crashes>>
       ELSE /\ Raise("read_csv: FileNotFoundError")
            /\ UNCHANGED df
    /\ UNCHANGED <<disk, artifact, runs, startupFits, prevLabels, pipeline,
                   df_clustered, opcao_visualizacao, df_pca, writes, outputs, call>>

\* lines 50-64: the ColumnTransformer and the Pipeline are constructed
Build ==
    /\ pc = "build"
    /\ pipeline' = NewPipeline
    /\ pc' = "fit"
    /\ UNCHANGED <<disk, artifact, totals, df, df_clustered, opcao_visualizacao,
                   df_pca, loads, writes, outputs, exception, call>>

\* A variant that caches the fitted pipeline between executions: the artifact of an
\* earlier execution is loaded instead of fitting again.
FitCached ==
    /\ pc = "fit"
    /\ IF artifact.exists
       THEN /\ pipeline' = artifact.content
            /\ pc' = "label"
            /\ UNCHANGED <<exception, crashes, startupFits>>
       ELSE /\ startupFits' = startupFits + 1
            /\ IF PipelineAccepts(df)
               THEN /\ pipeline' = PipelineFit(pipeline, df, runs)
                    /\ pc' = "label"
                    /\ UNCHANGED <<exception, crashes>>
               ELSE /\ Raise("fit: ValueError")
                    /\ UNCHANGED pipeline
    /\ UNCHANGED <<disk, artifact, runs, prevLabels, df, df_clustered,
                   opcao_visualizacao, df_pca, loads, writes, outputs, call>>

\* line 66: pipeline.fit(df)
Fit ==
    /\ pc = "fit"
    /\ startupFits' = startupFits + 1
    /\ IF PipelineAccepts(df)
       THEN /\ pipeline' = PipelineFit(pipeline, df, runs)
            /\ pc' = "label"
            /\ UNCHANGED <<exception, crashes>>
       ELSE /\ Raise("fit: ValueError")
            /\ UNCHANGED pipeline
    /\ UNCHANGED <<disk, artifact, runs, prevLabels, df, df_clustered,
                   opcao_visualizacao, df_pca, loads, writes, outputs, call>>

\* lines 67-68: df_clustered = df.copy(); df_clustered["cluster"] = labels_
Label ==
    /\ pc = "label"
    /\ df_clustered' = WithCluster(df, pipeline.clustering.labels_)
    /\ pc' = "dump"
    /\ UNCHANGED <<disk, artifact, totals, df, pipeline, opcao_visualizacao, df_pca,
                   loads, writes, outputs, exception, call>>

\* line 71: joblib.dump(pipeline, "modelos/...pkl")
Dump ==
    /\ pc = "dump"
    /\ IF dirExists
       THEN /\ artifact' = [exists |-> TRUE, content |-> pipeline]
            /\ writes' = writes + 1
            /\ pc' = "title"
            /\ UNCHANGED <<exception, crashes>>
       ELSE /\ Raise("dump: FileNotFoundError")
            /\ UNCHANGED <<artifact, writes>>
    /\ UNCHANGED <<disk, runs, startupFits, prevLabels, globals, loads, outputs, call>>

\* lines 94-95: st.title, st.write
ShowTitle ==
    /\ pc = "title"
    /\ written' = Append(written, Title)
    /\ pc' = "select"
    /\ UNCHANGED <<disk, artifact, totals, globals, loads, writes, charts, errors,
                   figures, exception, call>>

\* lines 98-101: the selectbox returns the option the user has selected
Select ==
    /\ pc = "select"
    /\ opcao_visualizacao' \in Range(Options)
    /\ pc' = "dispatch"
    /\ UNCHANGED <<disk, artifact, totals, df, pipeline, df_clustered, df_pca, loads,
                   writes, outputs, exception, call>>

\* The selection taken as a free input of the if/elif chain: any string.
SelectAny ==
    /\ pc = "select"
    /\ opcao_visualizacao' \in Range(Options) \cup {"Heatmap", "pairplot", "Cluster em 3D"}
    /\ pc' = "dispatch"
    /\ UNCHANGED <<disk, artifact, totals, df, pipeline, df_clustered, df_pca, loads,
                   writes, outputs, exception, call>>

QuantidadeCores == 5

\* A branch that draws on df_clustered: its heading, then one st.pyplot.
FlatBranch(k, kind) ==
    /\ pc = "dispatch"
    /\ Branch(opcao_visualizacao) = k
    /\ written' = Append(written, Headings[k])
    /\ charts' = Append(charts, Chart(kind, <<>>, <<>>))
    /\ pc' = "conclusion"
    /\ UNCHANGED <<disk, artifact, totals, globals, loads, writes, errors, figures,
                   exception, call>>

\* lines 104-108
Pairplot == FlatBranch(1, "pairplot")

\* lines 110-117
BoxplotPorCluster == FlatBranch(2, "boxplot x=cluster hue=cluster")

\* lines 119-126
BoxplotPorGenero == FlatBranch(3, "boxplot x=cluster hue=Gender")

\* A 3-D branch: the slice of the pipeline is fit again on df, df_pca takes the
\* coordinates and the labels, visualizar_cluster draws.
Branch3D(k, withCentroids, mostrar_pontos) ==
    /\ pc = "dispatch"
    /\ Branch(opcao_visualizacao) = k
    /\ LET r == SliceFitTransform(pipeline, df)
           frame == WithCluster(PcaFrame(r.X), r.pipeline.clustering.labels_)
           centroids == IF withCentroids
                        THEN r.pipeline.clustering.cluster_centers_ ELSE <<>>
           v == VisualizarCluster(frame, PcaColumns, QuantidadeCores, centroids,
                                  mostrar_pontos, "cluster")
       IN  /\ pipeline' = r.pipeline
           /\ df_pca' = frame
           /\ errors' = errors \o v.errors
           /\ figures' = figures + v.figures
           /\ charts' = charts \o v.charts
    /\ written' = Append(written, Headings[k])
    /\ pc' = "conclusion"

\* A variant that saves the pipeline again after fitting the slice.
Cluster3DSemRedump ==
    /\ Branch3D(4, FALSE, FALSE)
    /\ artifact' = [exists |-> TRUE, content |-> pipeline']
    /\ writes' = writes + 1
    /\ UNCHANGED <<disk, totals, df, df_clustered, opcao_visualizacao, loads,
                   exception, call>>

\* lines 128-141
Cluster3DSemDispersao ==
    /\ Branch3D(4, FALSE, FALSE)
    /\ UNCHANGED <<disk, artifact, totals, df, df_clustered, opcao_visualizacao, loads,
                   writes, exception, call>>

\* lines 143-159
Cluster3DComDispersao ==
    /\ Branch3D(5, TRUE, TRUE)
    /\ UNCHANGED <<disk, artifact, totals, df, df_clustered, opcao_visualizacao, loads,
                   writes, exception, call>>

\* No condition of the chain holds: control reaches line 163 with nothing done.
FallThrough ==
    /\ pc = "dispatch"
    /\ Branch(opcao_visualizacao) = 0
    /\ pc' = "conclusion"
    /\ UNCHANGED <<disk, artifact, totals, globals, loads, writes, outputs, exception,
                   call>>

\* lines 163-199: the static conclusion
ShowConclusion ==
    /\ pc = "conclusion"
    /\ written' = Append(written, Conclusion)
    /\ pc' = "done"
    /\ UNCHANGED <<disk, artifact, totals, globals, loads, writes, charts, errors,
                   figures, exception, call>>

Next ==
    \/ Start
    \/ Load
    \/ Build
    \/ Fit
    \/ Label
    \/ Dump
    \/ ShowTitle
    \/ Select
    \/ Pairplot
    \/ BoxplotPorCluster
    \/ BoxplotPorGenero
    \/ Cluster3DSemDispersao
    \/ Cluster3DComDispersao
    \/ ShowConclusion

Spec == Init /\ [][Next]_vars

\* The same script with the selection a free input of the chain.
NextAnyMode ==
    \/ Start
    \/ Load
    \/ Build
    \/ Fit
    \/ Label
    \/ Dump
    \/ ShowTitle
    \/ SelectAny
    \/ Pairplot
    \/ BoxplotPorCluster
    \/ BoxplotPorGenero
    \/ Cluster3DSemDispersao
    \/ Cluster3DComDispersao
    \/ FallThrough
    \/ ShowConclusion

SpecAnyMode == Init /\ [][NextAnyMode]_vars

(***************************************************************************)
(* visualizar_cluster called on its own, on any arguments                  *)
(***************************************************************************)
FittedTables == {t \in Tables : PipelineAccepts(t)}

CallFrames ==
    UNION { LET p == PipelineFit(NewPipeline, t, 0)
                X == SliceFitTransform(NewPipeline, t).X
            IN  { PcaFrame(X), WithCluster(PcaFrame(X), p.clustering.labels_) }
          : t \in FittedTables }

CallArgs ==
    [dataframe : CallFrames,
     colunas : {PcaColumns},
     quantidade_cores : {QuantidadeCores},
     centroids : {<<>>, <<<<0, 0, 0>>>>},
     mostrar_pontos : BOOLEAN,
     coluna_clusters : {NoneValue, "cluster", "grupo"}]

InitCall ==
    /\ file = [exists |-> FALSE, table |-> EmptyFrame]
    /\ dirExists = FALSE
    /\ artifact = NoArtifact
    /\ runs = 0
    /\ crashes = 0
    /\ startupFits = 0
    /\ prevLabels = NoLabels
    /\ pc = "call"
    /\ df = EmptyFrame
    /\ pipeline = NewPipeline
    /\ df_clustered = EmptyFrame
    /\ opcao_visualizacao = ""
    /\ df_pca = EmptyFrame
    /\ loads = 0
    /\ writes = 0
    /\ charts = <<>>
    /\ errors = <<>>
    /\ figures = 0
    /\ written = <<>>
    /\ exception = ""
    /\ call \in CallArgs

\* A call whose arguments plot: with mostrar_pontos the rows are selected by
\* dataframe[coluna_clusters], which the guard has found to be a column.
CallVisualizarCluster ==
    /\ pc = "call"
    /\ LET v == VisualizarCluster(call.dataframe, call.colunas, call.quantidade_cores,
                                  call.centroids, call.mostrar_pontos,
                                  call.coluna_clusters)
       IN  /\ errors' = errors \o v.errors
           /\ figures' = figures + v.figures
           /\ charts' = charts \o v.charts
    /\ pc' = "returned"
    /\ UNCHANGED <<disk, artifact, totals, globals, loads, writes, written, exception,
                   call>>

NextCall == CallVisualizarCluster

SpecCall == InitCall /\ [][NextCall]_vars

(***************************************************************************)
(* Properties                                                              *)
(***************************************************************************)
AfterDump == {"title", "select", "dispatch", "conclusion", "done"}
AfterBranch == {"conclusion", "done"}
Labels == Column(df_clustered, "cluster")
HeadingsWritten == {h \in Range(written) : h \in Range(Headings)}

\* C1: once the startup fit has labelled the table, df_clustered has the rows of df,
\* each with exactly one cluster value, an integer of 0..4; every table the fit
\* accepts gets there.
C1_EveryRecordOneLabel ==
    /\ df_clustered # EmptyFrame =>
          /\ df_clustered.columns = df.columns \cup {"cluster"}
          /\ Len(df_clustered.rows) = Len(df.rows)
          /\ \A i \in 1..Len(df.rows) :
                /\ DOMAIN df_clustered.rows[i] = df_clustered.columns
                /\ Restrict(df_clustered.rows[i], df.columns) = df.rows[i]
                /\ df_clustered.rows[i]["cluster"] \in 0..4
    /\ (pc \in AfterDump \cup {"dump"}) => df_clustered # EmptyFrame
    /\ (pc = "crashed" /\ file.exists /\ PipelineAccepts(file.table)) =>
          df_clustered # EmptyFrame

\* C1 witness: an execution completed with all five labels in use.
C1_Witness ==
    /\ pc = "done"
    /\ Len(df_clustered.rows) = MaxRows
    /\ Range(Labels) = 0..4

\* C2: an execution that selected one of the five options has rendered exactly one
\* chart, the chart of the branch of that option, and has run no other branch.
C2_OneChartOfTheSelectedBranch ==
    pc \in AfterBranch =>
        \E k \in 1..Len(Options) :
            /\ opcao_visualizacao = Options[k]
            /\ Len(charts) = 1
            /\ HeadingsWritten = {Headings[k]}
            /\ charts[1].kind =
                  CASE k = 1 -> "pairplot"
                    [] k = 2 -> "boxplot x=cluster hue=cluster"
                    [] k = 3 -> "boxplot x=cluster hue=Gender"
                    [] OTHER -> "scatter3d"
            /\ k = 4 => charts[1].centroids = <<>>
            /\ k = 5 => charts[1].centroids = pipeline.clustering.cluster_centers_
            /\ k <= 3 => (df_pca = EmptyFrame /\ figures = 0)
            /\ k >= 4 => figures = 1

\* C2 witness: the third option, drawn by the third branch.
C2_Witness ==
    /\ pc = "done"
    /\ opcao_visualizacao = "Boxplot por Gênero"
    /\ Len(charts) = 1
    /\ charts[1].kind = "boxplot x=cluster hue=Gender"

\* C3: a call of visualizar_cluster whose coluna_clusters is no column of the
\* dataframe (None included) emits exactly one error, creates no figure and renders
\* nothing; a call whose column is present emits no error and renders one chart.
C3_MissingColumnGuard ==
    pc = "returned" =>
        IF call.coluna_clusters \in call.dataframe.columns
        THEN errors = <<>> /\ figures = 1 /\ Len(charts) = 1
        ELSE Len(errors) = 1 /\ figures = 0 /\ charts = <<>>

\* C3 witness: the default None on a dataframe that has a cluster column.
C3_Witness ==
    /\ pc = "returned"
    /\ call.coluna_clusters = NoneValue
    /\ "cluster" \in call.dataframe.columns
    /\ Len(errors) = 1
    /\ charts = <<>>

AllPoints(chart) == [i \in 1..Len(chart.layers) |-> Len(chart.layers[i].points)]

\* C4: the two 3-D modes plot the same coordinates and labels; the chart without
\* dispersion draws no scatter points and no centroids, the chart with dispersion
\* draws every point once and the centroids.
C4_3DModesDifferOnlyInOverlay ==
    (pc \in AfterBranch /\ Branch(opcao_visualizacao) \in {4, 5}) =>
        /\ df_pca = WithCluster(PcaFrame(SliceFitTransform(NewPipeline, df).X), Labels)
        /\ Len(charts) = 1
        /\ Branch(opcao_visualizacao) = 4 =>
              /\ charts[1].centroids = <<>>
              /\ SumSeq(AllPoints(charts[1])) = 0
        /\ Branch(opcao_visualizacao) = 5 =>
              /\ charts[1].centroids = pipeline.clustering.cluster_centers_
              /\ SumSeq(AllPoints(charts[1])) = Len(df.rows)

\* C5: after the startup fit every stage of the pipeline has been fit exactly once,
\* to the end of the execution.
C5_PipelineFitExactlyOnce ==
    /\ pipeline.preprocessing.fits <= 1
    /\ pipeline.pca.fits <= 1
    /\ pipeline.clustering.fits <= 1
    /\ (pc \in AfterDump \cup {"label", "dump"}) =>
          /\ pipeline.preprocessing.fits = 1
          /\ pipeline.pca.fits = 1
          /\ pipeline.clustering.fits = 1

\* C6: with the file fixed, the labels an execution assigns are the labels the
\* previous execution assigned, whatever mode either selected; the labels a 3-D
\* branch plots are the same labels.
C6_LabelsDeterministic ==
    /\ (prevLabels.has /\ df_clustered # EmptyFrame) => Labels = prevLabels.labels
    /\ (prevLabels.has /\ df_pca # EmptyFrame) =>
          Column(df_pca, "cluster") = prevLabels.labels

\* C6 witness: two executions on the same file with different modes selected.
C6_Witness ==
    /\ pc = "done"
    /\ prevLabels.has
    /\ prevLabels.opcao = "Pairplot"
    /\ opcao_visualizacao = "Cluster em 3D (com dispersão)"
    /\ Cardinality(Range(Labels)) > 1

\* C7: with a selection that is none of the five options the chain runs no branch:
\* no chart, no error, no exception, and the step to the conclusion is enabled and
\* ends the execution.
C7_UnrecognizedModeFallsThrough ==
    opcao_visualizacao \notin Range(Options) \cup {""} =>
        /\ pc \in {"dispatch", "conclusion", "done"}
        /\ charts = <<>>
        /\ errors = <<>>
        /\ figures = 0
        /\ exception = ""
        /\ HeadingsWritten = {}
        /\ df_pca = EmptyFrame
        /\ pc = "dispatch" => ENABLED FallThrough
        /\ pc = "conclusion" => ENABLED ShowConclusion
        /\ pc = "done" => written[Len(written)] = Conclusion

\* C7 witness: an execution completed with an unrecognized selection.
C7_Witness ==
    /\ pc = "done"
    /\ opcao_visualizacao = "Heatmap"
    /\ charts = <<>>

\* C8: a missing file ends the execution at the load, a table the fit rejects at the
\* fit, a missing directory at the write; an execution so ended has run no later
\* step: nothing rendered, and after a load or fit failure no artifact written.
C8_FailureTerminatesRun ==
    /\ (~file.exists /\ pc \notin {"start", "load"}) =>
          (pc = "crashed" /\ exception = "read_csv: FileNotFoundError")
    /\ (file.exists /\ ~PipelineAccepts(file.table)
          /\ pc \notin {"start", "load", "build", "fit"}) =>
          (pc = "crashed" /\ exception = "fit: ValueError")
    /\ (file.exists /\ PipelineAccepts(file.table) /\ ~dirExists
          /\ pc \notin {"start", "load", "build", "fit", "label", "dump"}) =>
          (pc = "crashed" /\ exception = "dump: FileNotFoundError")
    /\ pc = "crashed" =>
          /\ charts = <<>>
          /\ errors = <<>>
          /\ written = <<"<style>">>
          /\ opcao_visualizacao = ""
          /\ writes = 0
          /\ exception # "dump: FileNotFoundError" =>
                (~artifact.exists /\ df_clustered = EmptyFrame)
          /\ exception = "read_csv: FileNotFoundError" => startupFits = 0

\* C8 witness: the fit has raised on a table of too few rows.
C8_Witness ==
    /\ pc = "crashed"
    /\ exception = "fit: ValueError"
    /\ Len(df.rows) = 1

\* C9: every execution that renders has loaded, fit and written in that execution,
\* and the startup fit has run once per execution started.
C9_NothingCachedBetweenRuns ==
    /\ charts # <<>> =>
          /\ loads = 1
          /\ writes = 1
          /\ pipeline.clustering.fits = 1
          /\ df = file.table
    /\ (file.exists /\ pc \notin {"start", "load", "build", "fit"}) =>
          startupFits = runs

\* C9 witness: the second interaction has rendered.
C9_Witness ==
    /\ runs = 2
    /\ pc = "done"
    /\ Len(charts) = 1
    /\ startupFits = 2

\* C10: the artifact is written once per execution, after the startup fit and
\* before the selection is read or a chart rendered, and holds the pipeline with
\* every stage fit once, as the startup fit left it, whatever branch ran afterwards.
C10_ArtifactWrittenOnceAfterFit ==
    /\ writes <= 1
    /\ pc \in AfterDump => writes = 1
    /\ (opcao_visualizacao # "" \/ charts # <<>>) => writes = 1
    /\ writes = 1 =>
          /\ pipeline.clustering.fits = 1
          /\ artifact.exists
          /\ artifact.content.clustering = pipeline.clustering
          /\ artifact.content.preprocessing = [pipeline.preprocessing EXCEPT !.fits = 1]
          /\ artifact.content.pca = [pipeline.pca EXCEPT !.fits = 1]

\* C10 witness: a 3-D branch has fit the slice again and the artifact does not show it.
C10_Witness ==
    /\ pc = "done"
    /\ opcao_visualizacao = "Cluster em 3D (com dispersão)"
    /\ writes = 1
    /\ pipeline.pca.fits = 2
    /\ artifact.content.pca.fits = 1

====
